---------------------------- MODULE Spec2Model ----------------------------
(***************************************************************************)
(* Particle Swarm Optimisation of the Michalewicz function, as implemented *)
(* in src/PSO-michalewicz.py.                                              *)
(*                                                                         *)
(* Numbers.  The program computes in floating point; the model computes in *)
(* fixed point and rounds every computed value to the nearest quantum, as  *)
(* floating point rounds to the nearest representable number.              *)
(*   - a coordinate or a velocity component is a whole number of quanta of *)
(*     pi/4, so the domain [0, pi] is 0..4;                                *)
(*   - a fitness is a whole number of thousandths;                         *)
(*   - a draw of np.random.uniform(0, 1) is k/RAND_LEVELS, 0 <= k <        *)
(*     RAND_LEVELS, and is carried as its numerator k.                     *)
(* Arrays.  A numpy array is an object: `a += b` changes it in place for   *)
(* every name bound to it, `a.copy()` and `np.clip(a, ..)` make a new one. *)
(* A particle therefore records whether best_position is bound to the same *)
(* array as position (field `aliased`).                                    *)
(***************************************************************************)
EXTENDS Integers, Sequences, FiniteSets, TLC

(* Bounds of the model.  The source runs 100 particles of 5 dimensions for  *)
(* at most 1000 iterations (lines 21-23); the model runs every swarm of at *)
(* most MaxParticles particles, MaxDimensions dimensions and               *)
(* MaxCoordinates coordinates in all, for at most MaxIterations iterations.*)
MaxParticles == 2
MaxDimensions == 2
MaxCoordinates == 4
MaxIterations == 2
(* The values k/RAND_LEVELS a uniform draw from [0, 1) takes in the model, *)
(* as the numerators k.                                                    *)
UnitDraws == {0, 1, 2}
RAND_LEVELS == Cardinality(UnitDraws)

(* INERTIA_WEIGHT = 0.1 as the fraction INERTIA_NUM / INERTIA_DEN. *)
INERTIA_NUM == 1
INERTIA_DEN == 10
COGNITIVE_CONST == 2
SOCIAL_CONST == 2
(* X_MIN = 0 and X_MAX = pi, in quanta of pi/4. *)
X_MIN == 0
X_MAX == 4
(* TOLERANCE = 1e-3, in thousandths. *)
TOLERANCE == 1

VARIABLES
    cfg,                    \* the module-level parameters (lines 21-34)
    pc,                     \* position of pso(): start, velocity, position,
                            \* reduce, results, done, error
    swarm,                  \* the list of particles
    particle,               \* index of the for loop of line 82
    global_best_position,
    global_best_value,
    best_values_history,
    avg_values_history,
    diversity_history,
    iterations,
    global_min_found,
    steps,                  \* history variable: passes of the for loop completed
    csv_rows                \* the rows pso() has written (line 210)

vars == <<cfg, pc, swarm, particle, global_best_position, global_best_value,
          best_values_history, avg_values_history, diversity_history,
          iterations, global_min_found, steps, csv_rows>>

---------------------------------------------------------------------------
(* Arithmetic helpers *)

Min2(a, b) == IF a <= b THEN a ELSE b
Max2(a, b) == IF a >= b THEN a ELSE b
Abs(a) == IF a >= 0 THEN a ELSE -a

(* n/d rounded to the nearest integer, halves away from zero (d > 0). *)
Round(n, d) == IF n >= 0 THEN (2 * n + d) \div (2 * d)
                         ELSE -((2 * (-n) + d) \div (2 * d))

RECURSIVE SumTo(_, _)
SumTo(f, n) == IF n <= 0 THEN 0 ELSE f[n] + SumTo(f, n - 1)

(* The integer nearest to the square root of n >= 0. *)
Sqrt(n) == CHOOSE r \in 0..(n + 1) :
               /\ r = 0 \/ (2 * r - 1) * (2 * r - 1) <= 4 * n
               /\ 4 * n < (2 * r + 1) * (2 * r + 1)

Dims(x) == DOMAIN x

---------------------------------------------------------------------------
(* The objective function, lines 10-18 *)

(* 1000 * sin(x) * sin(i * x^2 / pi)^20 at x = k * pi/4, k = 0..4,         *)
(* rounded, for the coordinate indices i = 1..5.                           *)
SinPower ==
    << <<0, 0, 1, 480, 0>>,
       <<0, 0, 1000, 0, 0>>,
       <<0, 0, 1, 18, 0>>,
       <<0, 1, 0, 1, 0>>,
       <<0, 18, 1, 0, 0>> >>

(* One summand of line 17.  The table covers the domain [0, pi]; the       *)
(* program never evaluates the function outside it.                        *)
Summand(i, xi) ==
    IF i \in DOMAIN SinPower /\ (xi + 1) \in DOMAIN SinPower[i]
    THEN SinPower[i][xi + 1] ELSE 0

michalewicz(x) ==
    LET n == Cardinality(Dims(x))
        term == [i \in 1..n |-> Summand(i, x[i])]
    IN  -SumTo(term, n)

(* GLOBAL_MINIMUM (line 33) is the known minimum of the function for the   *)
(* number of dimensions the program is set to: here the least value of the *)
(* function of d dimensions on the grid.                                   *)
KnownMinimum(d) ==
    LET best == [i \in 1..d |->
                    CHOOSE m \in {Summand(i, k) : k \in X_MIN..X_MAX} :
                        \A k \in X_MIN..X_MAX : Summand(i, k) <= m]
    IN  -SumTo(best, d)

---------------------------------------------------------------------------
(* numpy *)

(* np.random.uniform(low, high): low + (high - low) * u, u in [0, 1); the  *)
(* grid points nearest to a value it can return.  No error when high < low.*)
uniform(low, high) == IF low <= high THEN low..high ELSE high..low

(* The draws of np.random.uniform(0, 1, n), as numerators over RAND_LEVELS *)
uniform01(n) == [1..n -> UnitDraws]

(* Mutant of clip: only the upper bound is applied *)
clip_upper_only(a, lo, hi) == [k \in Dims(a) |-> Min2(a[k], hi)]

(* np.clip(a, lo, hi) = minimum(maximum(a, lo), hi), element-wise *)
clip(a, lo, hi) == [k \in Dims(a) |-> Min2(Max2(a[k], lo), hi)]

(* Mutant of copy: the array itself is bound, not a copy of it *)
no_copy(a) == [data |-> a, shared |-> TRUE]

(* ndarray.copy(): the same data in a new array, shared with no other name *)
copy(a) == [data |-> a, shared |-> FALSE]

(* np.linalg.norm(a - b) *)
norm(a, b) ==
    LET n == Cardinality(Dims(a))
        sq == [k \in 1..n |-> (a[k] - b[k]) * (a[k] - b[k])]
    IN  Sqrt(SumTo(sq, n))

---------------------------------------------------------------------------
(* class Particle, lines 36-61 *)

(* Particle.__init__ for the position sampled at line 38 *)
Particle(pos) ==
    [position      |-> pos,
     velocity      |-> [k \in Dims(pos) |-> 0],
     best_position |-> copy(pos).data,
     aliased       |-> copy(pos).shared,
     best_value    |-> michalewicz(pos)]

(* Mutant of update_velocity: the social coefficient is written as the     *)
(* literal of line 26 instead of being read from the parameters            *)
update_velocity_literal_social(p, gbest, r1, r2) ==
    [p EXCEPT !.velocity = [k \in Dims(p.position) |->
        Round(cfg.INERTIA_NUM * RAND_LEVELS * p.velocity[k]
                + cfg.INERTIA_DEN * cfg.COGNITIVE_CONST * r1[k]
                    * (p.best_position[k] - p.position[k])
                + cfg.INERTIA_DEN * SOCIAL_CONST * r2[k] * (gbest[k] - p.position[k]),
              cfg.INERTIA_DEN * RAND_LEVELS)]]

(* Particle.update_velocity, lines 43-48, for the draws r1 and r2 *)
update_velocity(p, gbest, r1, r2) ==
    [p EXCEPT !.velocity = [k \in Dims(p.position) |->
        Round(cfg.INERTIA_NUM * RAND_LEVELS * p.velocity[k]
                + cfg.INERTIA_DEN * cfg.COGNITIVE_CONST * r1[k] * (p.best_position[k] - p.position[k])
                + cfg.INERTIA_DEN * cfg.SOCIAL_CONST * r2[k] * (gbest[k] - p.position[k]),
              cfg.INERTIA_DEN * RAND_LEVELS)]]

(* Particle.update_position, lines 54-61 *)
update_position(p) ==
    LET moved   == [k \in Dims(p.position) |-> p.position[k] + p.velocity[k]]
        \* line 55 changes the array in place: a best_position bound to the
        \* same array changes with it
        held    == IF p.aliased THEN moved ELSE p.best_position
        \* line 57 binds position to a new array
        clipped == clip(moved, cfg.X_MIN, cfg.X_MAX)
        value   == michalewicz(clipped)
    IN  IF value < p.best_value
        THEN [p EXCEPT !.position = clipped,
                       !.best_value = value,
                       !.best_position = copy(clipped).data,
                       !.aliased = copy(clipped).shared]
        ELSE [p EXCEPT !.position = clipped,
                       !.best_position = held,
                       !.aliased = FALSE]

---------------------------------------------------------------------------
(* pso(), lines 63-189 *)

(* min(swarm, key=lambda p: p.best_value): the first particle of the least *)
(* best_value                                                              *)
MinParticle(sw) ==
    CHOOSE j \in DOMAIN sw :
        /\ \A m \in DOMAIN sw : sw[j].best_value <= sw[m].best_value
        /\ \A m \in DOMAIN sw : m < j => sw[m].best_value > sw[j].best_value

(* Mutant of VisibleGlobalBest: the best position of the swarm as it is,   *)
(* particles already updated in this pass included                         *)
VisibleGlobalBestAsync(sw, gbest) ==
    IF sw[MinParticle(sw)].best_value < michalewicz(gbest)
    THEN sw[MinParticle(sw)].best_position ELSE gbest

(* The global best position update_velocity is given at line 83: the       *)
(* variable of pso(), which the for loop does not assign.                  *)
VisibleGlobalBest(sw, gbest) == gbest

(* Mutant of ReduceGlobalBest: written for a maximisation, max for min and *)
(* > for <                                                                 *)
ReduceGlobalBestMaximising(sw, gvalue, gposition) ==
    LET j == CHOOSE a \in DOMAIN sw : \A b \in DOMAIN sw :
                 sw[a].best_value >= sw[b].best_value
    IN  IF sw[j].best_value > gvalue
        THEN [value |-> sw[j].best_value, position |-> sw[j].best_position]
        ELSE [value |-> gvalue, position |-> gposition]

(* Mutant of ReduceGlobalBest: the global best is never recomputed *)
ReduceGlobalBestStale(sw, gvalue, gposition) ==
    [value |-> gvalue, position |-> gposition]

(* Lines 87-90: the global best after a pass, from the one before it *)
ReduceGlobalBest(sw, gvalue, gposition) ==
    LET current_best_particle == sw[MinParticle(sw)]
    IN  IF current_best_particle.best_value < gvalue
        THEN [value    |-> current_best_particle.best_value,
              position |-> copy(current_best_particle.best_position).data]
        ELSE [value |-> gvalue, position |-> gposition]

(* Lines 83-84 for particle j of the swarm sw, with the draws d *)
ParticleStep(sw, gbest, j, d) ==
    [sw EXCEPT ![j] = update_position(
        update_velocity(@, VisibleGlobalBest(sw, gbest), d.r1, d.r2))]

(* Line 94: np.mean of the personal bests *)
MeanBest(sw) ==
    LET n == Len(sw)
        v == [j \in 1..n |-> sw[j].best_value]
    IN  Round(SumTo(v, n), n)

(* Lines 98-104: the mean distance over the unordered pairs of particles;  *)
(* np.mean of an empty list is nan (a warning, not an error), here -1.     *)
Diversity(sw) ==
    LET n     == Len(sw)
        row   == [a \in 1..n |->
                    SumTo([b \in 1..n |->
                             IF a < b THEN norm(sw[a].position, sw[b].position)
                                      ELSE 0], n)]
        pairs == (n * (n - 1)) \div 2
    IN  IF pairs = 0 THEN -1 ELSE Round(SumTo(row, n), pairs)

(* Mutant of LoopContinues: <= for < *)
LoopContinuesInclusive(its, found) == its <= cfg.MAX_ITERATIONS /\ ~found

(* Line 81: the test of the while loop *)
LoopContinues(its, found) == its < cfg.MAX_ITERATIONS /\ ~found

(* Line 111: the stop criterion *)
StopCriterion(gvalue) == Abs(gvalue - cfg.GLOBAL_MINIMUM) <= cfg.TOLERANCE

(* The parameters of lines 21-34 as the source sets them, for a swarm of n *)
(* particles of d dimensions and a budget of m iterations.                 *)
CodeConfig(n, d, m) ==
    [NUM_PARTICLES   |-> n,
     NUM_DIMENSIONS  |-> d,
     MAX_ITERATIONS  |-> m,
     INERTIA_NUM     |-> INERTIA_NUM,
     INERTIA_DEN     |-> INERTIA_DEN,
     COGNITIVE_CONST |-> COGNITIVE_CONST,
     SOCIAL_CONST    |-> SOCIAL_CONST,
     X_MIN           |-> X_MIN,
     X_MAX           |-> X_MAX,
     GLOBAL_MINIMUM  |-> KnownMinimum(d),
     TOLERANCE       |-> TOLERANCE]

(* The same with the three coefficients of the velocity update set to 0 *)
ZeroCoefficients(c) ==
    [c EXCEPT !.INERTIA_NUM = 0, !.COGNITIVE_CONST = 0, !.SOCIAL_CONST = 0]

(* The parameter sets of the model: the source's, scaled down to the       *)
(* bounds, with the source's coefficients or with none.                    *)
Configurations ==
    LET sized == {CodeConfig(n, d, MaxIterations) :
                     <<n, d>> \in {s \in (1..MaxParticles) \X (1..MaxDimensions) :
                                      s[1] * s[2] <= MaxCoordinates}}
    IN  sized \cup {ZeroCoefficients(c) : c \in sized}

(* The state pso() starts in, with the parameters c *)
Start(c) ==
    /\ cfg = c
    /\ pc = "start"
    /\ swarm = <<>>
    /\ particle = 1
    /\ global_best_position = <<>>
    /\ global_best_value = 0
    /\ best_values_history = <<>>
    /\ avg_values_history = <<>>
    /\ diversity_history = <<>>
    /\ iterations = 0
    /\ global_min_found = FALSE
    /\ steps = 0
    /\ csv_rows = <<>>

Init == \E c \in Configurations : Start(c)

(* Lines 69-81: the swarm is created, the global best is taken from it and *)
(* the while loop is tested for the first time.                            *)
CreateSwarm ==
    /\ pc = "start"
    /\ cfg.NUM_PARTICLES > 0
    /\ cfg.NUM_DIMENSIONS >= 0
    /\ \E pos \in [1..cfg.NUM_PARTICLES ->
                     [1..cfg.NUM_DIMENSIONS -> uniform(cfg.X_MIN, cfg.X_MAX)]] :
          LET sw == [j \in 1..cfg.NUM_PARTICLES |-> Particle(pos[j])]
              global_best_particle == sw[MinParticle(sw)]
          IN  /\ swarm' = sw
              /\ global_best_position' = copy(global_best_particle.best_position).data
              /\ global_best_value' = global_best_particle.best_value
    /\ pc' = IF LoopContinues(0, FALSE) THEN "velocity" ELSE "results"
    /\ UNCHANGED <<cfg, particle, best_values_history, avg_values_history,
                   diversity_history, iterations, global_min_found, steps,
                   csv_rows>>

(* Line 83, for the particle the for loop is at *)
UpdateVelocity ==
    /\ pc = "velocity"
    /\ \E r1 \in uniform01(cfg.NUM_DIMENSIONS) :
       \E r2 \in uniform01(cfg.NUM_DIMENSIONS) :
          swarm' = [swarm EXCEPT ![particle] =
                       update_velocity(@, VisibleGlobalBest(swarm, global_best_position),
                                       r1, r2)]
    /\ pc' = "position"
    /\ UNCHANGED <<cfg, particle, global_best_position, global_best_value,
                   best_values_history, avg_values_history, diversity_history,
                   iterations, global_min_found, steps, csv_rows>>

(* Line 84, and the for loop moves to the next particle or ends *)
UpdatePosition ==
    /\ pc = "position"
    /\ swarm' = [swarm EXCEPT ![particle] = update_position(@)]
    /\ IF particle < Len(swarm)
       THEN particle' = particle + 1 /\ pc' = "velocity"
       ELSE particle' = 1 /\ pc' = "reduce"
    /\ UNCHANGED <<cfg, global_best_position, global_best_value,
                   best_values_history, avg_values_history, diversity_history,
                   iterations, global_min_found, steps, csv_rows>>

(* Lines 86-123 and the test of line 81: the global best is recomputed,    *)
(* the three histories grow, and the loop stops or goes on.                *)
EndIteration ==
    /\ pc = "reduce"
    /\ LET g == ReduceGlobalBest(swarm, global_best_value, global_best_position)
       IN  /\ global_best_value' = g.value
           /\ global_best_position' = g.position
           /\ best_values_history' = Append(best_values_history, g.value)
           /\ avg_values_history' = Append(avg_values_history, MeanBest(swarm))
           /\ diversity_history' = Append(diversity_history, Diversity(swarm))
           /\ steps' = steps + 1
           /\ IF StopCriterion(g.value)
              THEN /\ global_min_found' = TRUE
                   /\ iterations' = iterations
                   /\ pc' = "results"
              ELSE /\ global_min_found' = global_min_found
                   /\ iterations' = iterations + 1
                   /\ pc' = IF LoopContinues(iterations + 1, global_min_found)
                            THEN "velocity" ELSE "results"
    /\ UNCHANGED <<cfg, swarm, particle, csv_rows>>

(* Lines 177-210: the row of results is built and written *)
WriteResults ==
    /\ pc = "results"
    /\ avg_values_history /= <<>>
    /\ diversity_history /= <<>>
    /\ csv_rows' = Append(csv_rows,
           [best_value |-> global_best_value,
            iterations |-> iterations + 1,
            avg_value  |-> avg_values_history[Len(avg_values_history)],
            diversity  |-> diversity_history[Len(diversity_history)]])
    /\ pc' = "done"
    /\ UNCHANGED <<cfg, swarm, particle, global_best_position, global_best_value,
                   best_values_history, avg_values_history, diversity_history,
                   iterations, global_min_found, steps>>

(* Lines 69-71 raise ValueError: np.random.uniform refuses a negative size *)
(* in the first Particle(), and min() refuses an empty swarm.              *)
CreateSwarmFails ==
    /\ pc = "start"
    /\ cfg.NUM_PARTICLES <= 0 \/ cfg.NUM_DIMENSIONS < 0
    /\ pc' = "error"
    /\ UNCHANGED <<cfg, swarm, particle, global_best_position, global_best_value,
                   best_values_history, avg_values_history, diversity_history,
                   iterations, global_min_found, steps, csv_rows>>

(* Line 185 raises IndexError: avg_values_history[-1] of an empty list *)
WriteResultsFails ==
    /\ pc = "results"
    /\ avg_values_history = <<>>
    /\ pc' = "error"
    /\ UNCHANGED <<cfg, swarm, particle, global_best_position, global_best_value,
                   best_values_history, avg_values_history, diversity_history,
                   iterations, global_min_found, steps, csv_rows>>

Next == CreateSwarm \/ UpdateVelocity \/ UpdatePosition \/ EndIteration
          \/ WriteResults

Spec == Init /\ [][Next]_vars

(* The program with one of the parameters of lines 21-30 edited to a value *)
(* outside its meaning: no particles, no dimensions, no iterations, or the *)
(* bounds equal or swapped.                                                *)
EditedConfigurations ==
    Configurations
    \cup {[c EXCEPT !.NUM_PARTICLES = n]  : c \in Configurations, n \in {-1, 0}}
    \cup {[c EXCEPT !.NUM_DIMENSIONS = d] : c \in Configurations, d \in {-1, 0}}
    \cup {[c EXCEPT !.MAX_ITERATIONS = m] : c \in Configurations, m \in {-1, 0}}
    \cup {[c EXCEPT !.X_MAX = c.X_MIN] : c \in Configurations}
    \cup {[c EXCEPT !.X_MIN = c.X_MAX, !.X_MAX = c.X_MIN] : c \in Configurations}

InitCfg == \E c \in EditedConfigurations : Start(c)

NextCfg == Next \/ CreateSwarmFails \/ WriteResultsFails

SpecCfg == InitCfg /\ [][NextCfg]_vars

---------------------------------------------------------------------------
(* Vocabulary of the properties *)

(* The states of the optimisation loop: RUNNING until the while loop of    *)
(* line 81 is left, then CONVERGED if the stop criterion of line 111 ended *)
(* it and EXHAUSTED if the budget did; ERROR once an exception is raised.  *)
LoopState ==
    IF pc = "error" THEN "ERROR"
    ELSE IF pc \in {"start", "velocity", "position", "reduce"} THEN "RUNNING"
    ELSE IF global_min_found THEN "CONVERGED"
    ELSE "EXHAUSTED"

(* min(p.best_value for p in swarm) *)
MinBestValue(sw) == sw[MinParticle(sw)].best_value

(* Between two passes of the for loop: the swarm is initialised or the     *)
(* global best has just been recomputed, and no particle has moved since.  *)
Synchronised ==
    \/ pc = "velocity" /\ particle = 1
    \/ pc \in {"results", "done"}

InDomain(x) == \A k \in Dims(x) : cfg.X_MIN <= x[k] /\ x[k] <= cfg.X_MAX

ZeroCoefficientsSet ==
    cfg.INERTIA_NUM = 0 /\ cfg.COGNITIVE_CONST = 0 /\ cfg.SOCIAL_CONST = 0

InvalidConfiguration ==
    \/ cfg.X_MIN >= cfg.X_MAX
    \/ cfg.NUM_PARTICLES <= 0
    \/ cfg.NUM_DIMENSIONS <= 0
    \/ cfg.MAX_ITERATIONS <= 0

Last(h) == h[Len(h)]

---------------------------------------------------------------------------
(* The two step properties of C1 *)
C1_NeverUp == pc # "start" => global_best_value' <= global_best_value

C1_Recorded ==
    Len(best_values_history') > Len(best_values_history) =>
        /\ Last(best_values_history') = global_best_value'
        /\ Last(best_values_history') <= global_best_value

(* C1: the global best value never increases: the recorded history is      *)
(* non-increasing, every recorded value is at most the global best held    *)
(* before the iteration that recorded it (the first one: the global best   *)
(* of the initial swarm), and global_best_value itself never goes up.      *)
C1_GlobalBestMonotone ==
    /\ [](\A k \in 1..(Len(best_values_history) - 1) :
             best_values_history[k + 1] <= best_values_history[k])
    /\ [][C1_NeverUp /\ C1_Recorded]_vars

(* Two iterations are recorded and the second improved on the first. *)
C1_Witness ==
    /\ Len(best_values_history) >= 2
    /\ best_values_history[2] < best_values_history[1]

(* C2 as claimed: from the initialisation of the swarm on,                 *)
(* global_best_value <= min p.best_value at all times, with equality after *)
(* each recomputation of the global best.                                  *)
C2_AtAllTimes ==
    pc # "start" =>
        /\ global_best_value <= MinBestValue(swarm)
        /\ Synchronised => global_best_value = MinBestValue(swarm)

(* C2 amended: global_best_value equals min p.best_value whenever the      *)
(* swarm is synchronised (after initialisation and after each              *)
(* recomputation); while a pass over the particles is under way it is      *)
(* greater than or equal to that minimum.                                  *)
C2_EqualWhenSynchronised ==
    pc # "start" =>
        /\ global_best_value >= MinBestValue(swarm)
        /\ Synchronised => global_best_value = MinBestValue(swarm)

(* A pass has improved a personal best below the global best, which is     *)
(* still to be recomputed.                                                 *)
C2_Witness ==
    /\ pc = "reduce"
    /\ global_best_value > MinBestValue(swarm)

(* C3: every particle's best_value is the objective function at its        *)
(* best_position, after construction and after any updates.                *)
C3_BestValueConsistent ==
    \A j \in DOMAIN swarm :
        swarm[j].best_value = michalewicz(swarm[j].best_position)

(* A particle has moved, in place, away from the best position it keeps.  *)
C3_Witness ==
    /\ steps >= 1
    /\ \E j \in DOMAIN swarm :
          /\ swarm[j].position # swarm[j].best_position
          /\ swarm[j].best_value < michalewicz(swarm[j].position)

(* What is left of the run, in steps of the model: 0 when it is over, and  *)
(* for each iteration still allowed the two updates of every particle and  *)
(* the end of the iteration.                                               *)
StepsLeft ==
    LET pass == 2 * cfg.NUM_PARTICLES + 1
    IN  CASE pc \in {"done", "error"} -> 0
          [] pc = "results"  -> 1
          [] pc = "start"    -> 2 + (cfg.MAX_ITERATIONS + 1) * pass
          [] pc = "velocity" -> 2 + (cfg.MAX_ITERATIONS - iterations) * pass
                                  - 2 * (particle - 1)
          [] pc = "position" -> 2 + (cfg.MAX_ITERATIONS - iterations) * pass
                                  - 2 * (particle - 1) - 1
          [] pc = "reduce"   -> 2 + (cfg.MAX_ITERATIONS - iterations) * pass
                                  - 2 * cfg.NUM_PARTICLES

(* The state and step properties of C4 *)
C4_Budget ==
    /\ steps <= cfg.MAX_ITERATIONS
    /\ StepsLeft >= 0
    /\ LoopState = "CONVERGED" => StopCriterion(global_best_value)
    /\ LoopState = "EXHAUSTED" => iterations = cfg.MAX_ITERATIONS /\ steps = iterations
    /\ LoopState = "RUNNING" => /\ iterations < cfg.MAX_ITERATIONS
                                /\ steps = iterations
                                /\ ENABLED Next

C4_Pass ==
    steps' # steps =>
        /\ LoopState = "RUNNING"
        /\ steps' = steps + 1
        /\ IF StopCriterion(global_best_value')
           THEN LoopState' = "CONVERGED" /\ iterations' = iterations
           ELSE /\ iterations' = iterations + 1
                /\ LoopState' \in {"RUNNING", "EXHAUSTED"}
                /\ LoopState' = "EXHAUSTED" <=> iterations' = cfg.MAX_ITERATIONS

C4_Terminal ==
    LoopState # "RUNNING" =>
        /\ LoopState' = LoopState
        /\ steps' = steps
        /\ swarm' = swarm
        /\ global_best_value' = global_best_value
        /\ global_best_position' = global_best_position

C4_Progress == vars' # vars => StepsLeft' < StepsLeft

(* C4: the loop ends after at most MAX_ITERATIONS passes: a pass that      *)
(* meets the stop criterion ends it in CONVERGED with the counter          *)
(* unchanged, any other pass increments the counter and ends it in         *)
(* EXHAUSTED exactly when the counter reaches MAX_ITERATIONS, and nothing  *)
(* moves once a terminal state is reached.  It always ends: a running loop *)
(* can take a step, and every step lowers StepsLeft, which is never        *)
(* negative.                                                               *)
C4_Terminates ==
    /\ []C4_Budget
    /\ [][C4_Pass /\ C4_Terminal /\ C4_Progress]_vars

(* The stop criterion ended the run before the budget was used up. *)
C4_Witness ==
    /\ LoopState = "CONVERGED"
    /\ steps < cfg.MAX_ITERATIONS

(* C5: with MAX_ITERATIONS = 0 the run ends in EXHAUSTED without a pass,   *)
(* with the global best of the initial swarm, and not in an error.         *)
C5_ZeroBudget ==
    (cfg.MAX_ITERATIONS = 0 /\ pc \in {"results", "done", "error"}) =>
        /\ LoopState = "EXHAUSTED"
        /\ steps = 0
        /\ global_best_value = MinBestValue(swarm)

(* C6: an invalid configuration ends the run in an error before any        *)
(* particle is created or any pass is made.                                *)
C6_InvalidConfigurationRejected ==
    InvalidConfiguration =>
        /\ pc \in {"start", "error"}
        /\ swarm = <<>>
        /\ steps = 0

(* The state and step properties of C7 *)
C7_InBounds ==
    pc # "start" =>
        /\ InDomain(global_best_position)
        /\ \A j \in DOMAIN swarm :
              InDomain(swarm[j].position) /\ InDomain(swarm[j].best_position)

C7_VelocityKept ==
    pc = "position" => swarm'[particle].velocity = swarm[particle].velocity

(* C7: every coordinate of every position, best_position and of            *)
(* global_best_position is in [X_MIN, X_MAX], and update_position leaves   *)
(* the velocity as it was.                                                 *)
C7_Clamped ==
    /\ []C7_InBounds
    /\ [][C7_VelocityKept]_vars

(* A particle was stopped at a bound by the clamp: its velocity is larger  *)
(* than the whole domain is wide, and is kept.                             *)
C7_Witness ==
    /\ pc \in {"velocity", "reduce"}
    /\ \E j \in DOMAIN swarm : \E k \in Dims(swarm[j].position) :
          \/ /\ swarm[j].velocity[k] > cfg.X_MAX - cfg.X_MIN
             /\ swarm[j].position[k] = cfg.X_MAX
          \/ /\ swarm[j].velocity[k] < cfg.X_MIN - cfg.X_MAX
             /\ swarm[j].position[k] = cfg.X_MIN

(* The step property of C8 *)
C8_NothingMoves ==
    (ZeroCoefficientsSet /\ pc # "start") =>
        /\ swarm' = swarm
        /\ global_best_value' = global_best_value
        /\ global_best_position' = global_best_position

(* C8: with the three coefficients 0 every velocity stays the zero vector  *)
(* and nothing of the swarm or of the global best changes once the swarm   *)
(* is initialised.                                                         *)
C8_Frozen ==
    /\ [](ZeroCoefficientsSet =>
            \A j \in DOMAIN swarm : \A k \in Dims(swarm[j].velocity) :
                swarm[j].velocity[k] = 0)
    /\ [][C8_NothingMoves]_vars
    /\ [](ZeroCoefficientsSet =>
            \A k \in 1..Len(best_values_history) :
                best_values_history[k] = global_best_value)

(* Two passes were made with the coefficients 0. *)
C8_Witness ==
    /\ ZeroCoefficientsSet
    /\ steps >= 2
    /\ cfg.NUM_PARTICLES >= 2

(* The two draws of one particle *)
ParticleDraws ==
    [r1 : uniform01(cfg.NUM_DIMENSIONS), r2 : uniform01(cfg.NUM_DIMENSIONS)]

(* The swarms a pass can be in when at most n particles, any of them, have *)
(* been updated in any order with any draws, each with the set `done` of   *)
(* the particles updated.                                                  *)
RECURSIVE Partials(_)
Partials(n) ==
    IF n <= 0 THEN {[sw |-> swarm, done |-> {}]}
    ELSE LET before == Partials(n - 1)
         IN  before \cup UNION {
                 {[sw   |-> ParticleStep(x.sw, global_best_position, m, d),
                   done |-> x.done \cup {m}] : d \in ParticleDraws}
                 : <<x, m>> \in {y \in before \X DOMAIN swarm : y[2] \notin y[1].done}}

(* The state and step properties of C9 *)
C9_SameInputs ==
    (pc = "velocity" /\ particle = 1) =>
        \A x \in Partials(cfg.NUM_PARTICLES - 1) :
            \A j \in DOMAIN swarm \ x.done :
                /\ x.sw[j] = swarm[j]
                /\ VisibleGlobalBest(x.sw, global_best_position)
                     = global_best_position

C9_PassFrame ==
    pc \in {"velocity", "position"} =>
        /\ global_best_position' = global_best_position
        /\ global_best_value' = global_best_value
        /\ \A j \in DOMAIN swarm : j # particle => swarm'[j] = swarm[j]

C9_ReadsGlobalBest ==
    pc = "velocity" =>
        \E d \in ParticleDraws :
            swarm'[particle] =
                update_velocity(swarm[particle], global_best_position, d.r1, d.r2)

(* C9: during a pass the global best is not modified and every velocity    *)
(* update is computed from global_best_position as the last pass left it;  *)
(* and what the update of a particle reads, its own state and the global   *)
(* best position it is given, is the same whichever of the other particles *)
(* were updated before it, with whatever draws: for fixed draws the swarm  *)
(* after the pass is the same in every order.                              *)
C9_OrderIndependent ==
    /\ []C9_SameInputs
    /\ [][C9_PassFrame /\ C9_ReadsGlobalBest]_vars

(* A pass starts in which a particle can improve on the global best the   *)
(* particles after it are given.                                           *)
C9_Witness ==
    /\ pc = "velocity" /\ particle = 1
    /\ cfg.NUM_PARTICLES >= 2
    /\ \E x \in Partials(1) :
          x.done # {} /\ MinBestValue(x.sw) < global_best_value

(* C10: at termination the iteration count of the results row is the       *)
(* number of passes made, which is the length of each of the three         *)
(* histories.                                                              *)
C10_ReportedIterations ==
    pc = "done" =>
        /\ Last(csv_rows).iterations = steps
        /\ Len(best_values_history) = steps
        /\ Len(avg_values_history) = steps
        /\ Len(diversity_history) = steps

=============================================================================
